---------------------------- MODULE Spec2Model ----------------------------
(***************************************************************************)
(* Map-state reconciliation of the MetroTracker dashboard.                 *)
(*                                                                         *)
(* The model follows the MapComponent of src/src/pages/RouteTracker.tsx    *)
(* (the component the RouteTracker page mounts), the stop and polyline     *)
(* cache of src/src/services/apiService.ts and the selection handlers of   *)
(* src/src/components/RoutesList.tsx.                                      *)
(*                                                                         *)
(* One React commit is a sequence of effect callbacks; `commit' is the     *)
(* position inside that sequence ("cleanup" -> "init" -> "polyline" ->     *)
(* "idle").  Awaited network calls split a handler into the part before    *)
(* the await and a continuation that runs when the response arrives.       *)
(* Positions are one coordinate (lat and lng are handled by the same       *)
(* code); times are milliseconds.                                          *)
(***************************************************************************)
EXTENDS Integers, Sequences, FiniteSets, Bags, TLC

(* ------------------------------ bounds --------------------------------- *)
NumRoutes == 2
NumVehicles == 1
\* clock advances explored with the route reconciler running
MaxTicks == 1
\* clock advances explored with the telemetry pipeline alone
MaxTelemetryTicks == 3
\* stands for `steps = 60' of the marker animation
AnimSteps == 2
\* telemetry requests that may await their response at the same time
MaxInFlight == 2
\* fetchStops calls that may await their stops at the same time
MaxStopsRequests == 2

(* -------------------------- program constants -------------------------- *)
VehicleMinGap == 4000
PollInterval == 5000
PolylineMinGap == 500
StopsTTL == 600000
PolylinesTTL == 900000

Routes == 1..NumRoutes
\* selectedRouteForModal = null; the 'all' entry of the stop filter
NoRoute == 0
AllStops == 0
Vehicles == 1..NumVehicles

(* ApiRoute fields of route r; the feed used here gives every route its    *)
(* own id, segment id and name.                                            *)
RouteId(r) == r
RouteSegment(r) == r
RouteName(r) == r

(* processMultiplePolylines: one record per payload item, in payload order *)
PolySegment(p) == p
PolyName(p) == p
processMultiplePolylines == [i \in 1..NumRoutes |-> i]

(* segment_id carried by vehicle v in the AVL feed *)
VehicleSegment(v) == ((v - 1) % NumRoutes) + 1

(* Snapshot positions are multiples of PosUnit so that every interpolation *)
(* step (end - start) / steps is exact.                                    *)
PosUnit == AnimSteps ^ (MaxTelemetryTicks + 1)
Positions == {0, PosUnit}

(* the advances of Date.now() between two events *)
TickSteps == {PollInterval}

(* raw stop sequence numbers returned by GetStopsData for a route name *)
NetworkStops(n) == IF n % 2 = 1 THEN <<2, 1>> ELSE <<1>>

VARIABLES
  selectedRoutesForMap,      \* prop: set of selected routes
  polylineData,              \* prop: "none" | "empty" | "full"
  pageFetch,                 \* fetchInitialData of the page: "pending" | "done"
  commit,                    \* position in the current React commit
  renderPending,             \* a state update has scheduled a re-render
  mapRef,                    \* the Leaflet map exists
  routeLinesRef,             \* bag of drawn lines (polyline ids)
  stopMarkersRef,            \* bag of drawn stop markers
  vehicleMarkersRef,         \* vehicle id -> [handle, pos]
  intervalRef,               \* <<>> or <<[sel, due]>>: the setInterval timer
  polylinesDrawnRef,
  currentPolylineDataRef,
  currentSelectedRoutesRef,
  lastPolylineUpdateRef,
  lastVehicleUpdateRef,
  connectionStatus,
  now,                       \* Date.now()
  ticks,                     \* number of clock advances so far
  avlInFlight,               \* telemetry requests in flight, oldest
                             \* first: the selection each closure captured
                             \* and whether the snapshot of a request
                             \* started later has been applied already
  draws,                     \* bag of suspended route/stop reconciliations
  apiCache,                  \* cache key -> [data, timestamp, ttl]
  anims,                     \* requestAnimationFrame callbacks, in order
  markerSeq,                 \* number of vehicle markers created so far
  hist,                      \* observation record (call counts, last step)
  rawInput,                  \* argument handed to the coordinate codec
  decoded,                   \* what the codec call did with it
  selectedRouteForModal,     \* RoutesList state: route of the stops modal
  stopFilter,                \* RoutesList state: chosen stop name or AllStops
  loadingStops,              \* RoutesList state
  stops,                     \* RoutesList state: stops of the modal
  filteredStops,             \* RoutesList state: the stops the modal lists
  stopsRequests,             \* bag of fetchStops calls awaiting their stops
  dialog                     \* route whose stops dialog is open, or NoRoute

vars == <<selectedRoutesForMap, polylineData, pageFetch, commit, renderPending,
          mapRef, routeLinesRef, stopMarkersRef, vehicleMarkersRef,
          intervalRef, polylinesDrawnRef, currentPolylineDataRef,
          currentSelectedRoutesRef, lastPolylineUpdateRef,
          lastVehicleUpdateRef, connectionStatus, now, ticks, avlInFlight,
          draws, apiCache, anims, markerSeq, hist, rawInput, decoded,
          selectedRouteForModal, stopFilter, loadingStops, stops,
          filteredStops, stopsRequests, dialog>>

pageVars == <<selectedRoutesForMap, polylineData, pageFetch>>
routeVars == <<routeLinesRef, stopMarkersRef, polylinesDrawnRef,
               currentPolylineDataRef, currentSelectedRoutesRef,
               lastPolylineUpdateRef, draws, apiCache>>
vehicleVars == <<vehicleMarkersRef, lastVehicleUpdateRef, connectionStatus,
                 avlInFlight, anims, markerSeq>>
clockVars == <<now, ticks>>
codecVars == <<rawInput, decoded>>
modalVars == <<selectedRouteForModal, stopFilter, loadingStops, stops,
               filteredStops, stopsRequests, dialog>>


(* ------------------------------ helpers -------------------------------- *)
RECURSIVE SetToSeq(_)
SetToSeq(S) ==
  IF S = {} THEN <<>>
  ELSE LET m == CHOOSE x \in S : \A y \in S : x <= y
       IN <<m>> \o SetToSeq(S \ {m})

Range(s) == {s[i] : i \in 1..Len(s)}

RECURSIVE FilterSeq(_, _)
FilterSeq(s, keep) ==
  IF s = <<>> THEN <<>>
  ELSE (IF Head(s) \in keep THEN <<Head(s)>> ELSE <<>>) \o FilterSeq(Tail(s), keep)

(* --------------------------- apiService cache -------------------------- *)
StopsKey(n) == <<"GetStopsData", n>>
PolylinesKey == <<"GetGeoJSONPolylines", 0>>

\* getCachedData: a hit needs an entry younger than its ttl
CacheHit(cache, key, t) ==
  key \in DOMAIN cache /\ t - cache[key].timestamp < cache[key].ttl

\* getCachedData removes an expired entry
getCachedData(cache, key, t) ==
  IF key \in DOMAIN cache /\ ~CacheHit(cache, key, t)
  THEN [k \in DOMAIN cache \ {key} |-> cache[k]]
  ELSE cache

setCachedData(cache, key, data, ttl, t) ==
  [k \in DOMAIN cache \cup {key} |->
     IF k = key THEN [data |-> data, timestamp |-> t, ttl |-> ttl]
     ELSE cache[k]]

\* insertion sort of a list of stop sequence numbers (Array.sort by sequence)
RECURSIVE SortBySequence(_)
SortBySequence(s) ==
  IF s = <<>> THEN <<>>
  ELSE LET rest == SortBySequence(Tail(s))
           lo == SelectSeq(rest, LAMBDA x : x <= Head(s))
           hi == SelectSeq(rest, LAMBDA x : x > Head(s))
       IN lo \o <<Head(s)>> \o hi

(* ------------------------- vehicle reconciliation ---------------------- *)
\* the closure of one fetchAllVehicles call that awaits getAvlData
AvlRequest(sel) == [sel |-> sel, late |-> FALSE]

\* the pending requests without the i-th, whose response has arrived
Answered(pending, i) ==
  [j \in 1..(Len(pending) - 1) |->
     IF j < i THEN pending[j] ELSE pending[j + 1]]

\* the pending requests once the snapshot of the i-th has been applied: the
\* requests started before it are late from now on
Overtake(pending, i) ==
  [j \in 1..(Len(pending) - 1) |->
     IF j < i THEN [pending[j] EXCEPT !.late = TRUE] ELSE pending[j + 1]]

gateAlwaysOpen == TRUE

\* fetchAllVehicles up to its await: the 4000 ms gate, then the request
FetchGateOpen == ~(now - lastVehicleUpdateRef < VehicleMinGap)

fetchAllVehicles(sel) ==
  IF FetchGateOpen
  THEN /\ Len(avlInFlight) < MaxInFlight
       /\ lastVehicleUpdateRef' = now
       /\ connectionStatus' = "loading"
       /\ avlInFlight' = Append(avlInFlight, AvlRequest(sel))
       /\ renderPending' = (renderPending \/ connectionStatus # "loading")
  ELSE UNCHANGED <<lastVehicleUpdateRef, connectionStatus, avlInFlight,
                   renderPending>>

\* the filter of fetchAllVehicles: vehicles whose segment_id is selected
FilteredVehicles(snapshot, sel) ==
  {v \in DOMAIN snapshot : VehicleSegment(v) \in {RouteSegment(r) : r \in sel}}

\* markers after the forEach over the filtered vehicles: an existing marker
\* is kept and moved by the first animate() call, a missing one is created
\* at the snapshot position
Rank(v, S) == Cardinality({w \in S : w < v})

InterpolationStep(from, to) == (to - from) \div AnimSteps

MarkersAfterSnapshot(markers, snapshot, shown, seq) ==
  LET created == shown \ DOMAIN markers
  IN [v \in DOMAIN markers \cup shown |->
        IF v \in created
        THEN [handle |-> seq + Rank(v, created) + 1, pos |-> snapshot[v]]
        ELSE IF v \in shown
             THEN [handle |-> markers[v].handle,
                   pos |-> markers[v].pos
                           + InterpolationStep(markers[v].pos, snapshot[v])]
             ELSE markers[v]]

\* the animate closures started for the existing markers, in forEach order
RECURSIVE StartedAnims(_, _, _)
StartedAnims(vs, markers, snapshot) ==
  IF vs = <<>> THEN <<>>
  ELSE LET v == Head(vs)
       IN (IF v \in DOMAIN markers /\ 1 < AnimSteps
           THEN <<[veh |-> v, handle |-> markers[v].handle,
                   start |-> markers[v].pos,
                   step |-> InterpolationStep(markers[v].pos, snapshot[v]),
                   end |-> snapshot[v], cur |-> 1]>>
           ELSE <<>>)
          \o StartedAnims(Tail(vs), markers, snapshot)

NoVehicleMarkers == [v \in {} |-> 0]

keepVehicleMarkers(markers) == markers

\* clearVehicleMarkers: every marker leaves the map and the table
clearVehicleMarkers(markers) == NoVehicleMarkers


(* ----------------------- route / stop reconciliation ------------------- *)
\* The refs and collaborators the route/stop reconciler works on, as one
\* record that the operators below transform; the actions copy it back.
\* The arrays routeLinesRef and stopMarkersRef are only ever appended to,
\* iterated to remove every element, and emptied, so they are kept as bags.
\* `ops' counts the draw and remove calls on route lines and stop markers
\* made by the running handler, `fit' the fitBounds calls of the session.
RouteState ==
  [lines |-> routeLinesRef, stops |-> stopMarkersRef,
   drawn |-> polylinesDrawnRef, curData |-> currentPolylineDataRef,
   curSel |-> currentSelectedRoutesRef, lastUpd |-> lastPolylineUpdateRef,
   draws |-> draws, cache |-> apiCache,
   ops |-> 0, fit |-> hist.fitBoundsCalls]

\* a suspended reconciliation: kind "stops" waits for GetStopsData of `cur',
\* "polylines" and "legacy" are the two awaits of drawRoutePaths
Suspended(kind, cur, rest, first, bounds, routes) ==
  [kind |-> kind, cur |-> cur, rest |-> rest, first |-> first,
   bounds |-> bounds, routes |-> routes]

clearRouteElements(R) ==
  [R EXCEPT !.ops = @ + BagCardinality(R.lines) + BagCardinality(R.stops),
            !.lines = EmptyBag, !.stops = EmptyBag,
            !.drawn = FALSE, !.curData = "none"]

\* the filter of drawPolylinesFromGeoJSON
RouteMatches(r, p) ==
  \/ RouteSegment(r) = PolySegment(p)
  \/ RouteId(r) = PolySegment(p)
  \/ RouteName(r) = PolyName(p)

HasCoordinates(p) == p \in Routes

\* createStopMarker: the className of the icon; the stopIndex argument is
\* not used
createStopMarker(color, stopIndex) == "stop-marker"

\* the stop markers of one route, in the order of routeStops
StopMarkersFor(p, routeStops) ==
  [i \in 1..Len(routeStops) |->
     LET stopIndex == IF i = Len(routeStops) THEN -1 ELSE i - 1
     IN [poly |-> p, sequence |-> routeStops[i], stopIndex |-> stopIndex,
         icon |-> createStopMarker(p, stopIndex)]]

DrawStops(R, p, routeStops) ==
  [R EXCEPT !.stops = @ (+) SetToBag(Range(StopMarkersFor(p, routeStops))),
            !.ops = @ + Len(routeStops)]

\* end of drawPolylinesFromGeoJSON, then the line after the await in
\* updatePolylines: fit the camera on a first draw, mark polylines drawn
FinishDraw(R, first, bounds) ==
  [R EXCEPT !.fit = IF bounds > 0 /\ first THEN @ + 1 ELSE @,
            !.drawn = TRUE]

\* the for loop of drawPolylinesFromGeoJSON from polyline list `polys' on:
\* runs until the list is done or getStopsForRoute has to go to the network
RECURSIVE DrawLoop(_, _, _, _)
DrawLoop(R, polys, first, bounds) ==
  IF polys = <<>> THEN FinishDraw(R, first, bounds)
  ELSE LET p == Head(polys)
           key == StopsKey(PolyName(p))
       IN IF ~HasCoordinates(p) THEN DrawLoop(R, Tail(polys), first, bounds)
          ELSE LET R1 == [R EXCEPT !.lines = @ (+) SetToBag({p}),
                                   !.ops = @ + 1,
                                   !.cache = getCachedData(@, key, now)]
               IN IF CacheHit(R.cache, key, now)
                  THEN DrawLoop(DrawStops(R1, p, R.cache[key].data),
                                Tail(polys), first, bounds + 1)
                  ELSE [R1 EXCEPT
                          !.draws = @ (+) SetToBag({Suspended("stops", p, Tail(polys),
                                                        first, bounds + 1, {})})]

drawPolylinesFromGeoJSON(R, data, filterRoutes) ==
  IF ~mapRef \/ data = "none" THEN [R EXCEPT !.drawn = TRUE]
  ELSE LET first == ~R.drawn
           processed == IF data = "full" THEN processMultiplePolylines ELSE <<>>
           routesToDraw ==
             IF filterRoutes # {}
             THEN SelectSeq(processed,
                            LAMBDA p : \E r \in filterRoutes : RouteMatches(r, p))
             ELSE IF first THEN processed ELSE <<>>
           R1 == clearRouteElements(R)
       IN IF routesToDraw = <<>> THEN [R1 EXCEPT !.drawn = TRUE]
          ELSE DrawLoop(R1, routesToDraw, first, 0)

\* tail of drawRoutePaths: getRoutePolyline, whose routes never yield
\* coordinates through processMultiplePolylines, so nothing is drawn
LegacyKey == <<"GetRoutePolyline", 0>>

legacyRoutePaths(R, routes) ==
  LET R1 == [R EXCEPT !.cache = getCachedData(@, LegacyKey, now)]
  IN IF CacheHit(R.cache, LegacyKey, now)
     THEN [R1 EXCEPT !.drawn = TRUE]
     ELSE [R1 EXCEPT !.draws = @ (+) SetToBag({Suspended("legacy", 0, <<>>,
                                                  FALSE, 0, routes)})]

\* drawRoutePaths (fallback when the polylineData prop has no result)
drawRoutePaths(R, routes) ==
  IF ~mapRef \/ routes = {} THEN [R EXCEPT !.drawn = TRUE]
  ELSE LET R1 == [clearRouteElements(R) EXCEPT
                    !.cache = getCachedData(@, PolylinesKey, now)]
       IN IF CacheHit(R.cache, PolylinesKey, now)
          THEN IF R.cache[PolylinesKey].data = "full"
               THEN drawPolylinesFromGeoJSON(R1, "full", routes)
               ELSE legacyRoutePaths(R1, routes)
          ELSE [R1 EXCEPT
                  !.draws = @ (+) SetToBag({Suspended("polylines", 0, <<>>,
                                                      FALSE, 0, routes)})]

\* updatePolylines of the polyline effect
updatePolylines(R) ==
  IF now - R.lastUpd < PolylineMinGap THEN R
  ELSE LET R1 == [R EXCEPT !.lastUpd = now]
       IN IF polylineData = "full"
          THEN drawPolylinesFromGeoJSON(
                 [R1 EXCEPT !.curData = polylineData,
                            !.curSel = selectedRoutesForMap],
                 polylineData, selectedRoutesForMap)
          ELSE drawRoutePaths([R1 EXCEPT !.curSel = selectedRoutesForMap],
                              selectedRoutesForMap)

\* change detection of the polyline useEffect
hasSelectedRoutesChanged(R) ==
  {RouteId(r) : r \in R.curSel} # {RouteId(r) : r \in selectedRoutesForMap}

hasPolylineDataChanged(R) ==
  polylineData # "none" /\ (R.curData = "none" \/ R.curData # polylineData)

shouldUpdate(R) ==
  /\ selectedRoutesForMap # {}
  /\ \/ (~R.drawn /\ polylineData = "full")
     \/ hasPolylineDataChanged(R)
     \/ hasSelectedRoutesChanged(R)

\* body of the polyline useEffect
PolylineEffectBody(R) ==
  IF ~mapRef THEN R
  ELSE IF selectedRoutesForMap = {}
  THEN IF R.drawn
       THEN [clearRouteElements(R) EXCEPT !.curSel = {}]
       ELSE R
  ELSE IF shouldUpdate(R) THEN updatePolylines(R) ELSE R


(* --------------------------- coordinate codec -------------------------- *)
(* src/src/lib/polylineUtils.ts.  A JavaScript value is a record: `type'   *)
(* is its kind, `n' the value of a number, `items' the char codes of a     *)
(* string, the elements of an array, or the properties                     *)
(* <<lat, latitude, lng, longitude>> of an object.  Coordinates are whole  *)
(* numbers of 10^-5 degrees.                                               *)
JsValue(type, n, items) == [type |-> type, n |-> n, items |-> items]
JsNumber(n) == JsValue("number", n, <<>>)
JsNaN == JsValue("NaN", 0, <<>>)
JsNull == JsValue("null", 0, <<>>)
JsUndefined == JsValue("undefined", 0, <<>>)
JsString(chars) == JsValue("string", 0, chars)
JsArray(items) == JsValue("array", 0, items)
JsObject(lat, latitude, lng, longitude) ==
  JsValue("object", 0, <<lat, latitude, lng, longitude>>)

\* `precision = 5', the default parameter of decodePolyline
DefaultPrecision == 5

\* parseFloat of a number gives the number, of anything that does not
\* start with a numeral NaN
parseFloat(v) == IF v.type = "number" THEN v ELSE JsNaN

\* a || b
Falsy(v) ==
  \/ v.type \in {"undefined", "null", "NaN"}
  \/ v.type = "number" /\ v.n = 0
  \/ v.type = "string" /\ v.items = <<>>

Or(a, b) == IF Falsy(a) THEN b ELSE a

\* one group of decodePolyline: the do-while over the 5-bit chunks.  Past
\* the end of the string charCodeAt is NaN, which adds nothing and ends the
\* loop.  The inputs used keep every group within six characters, so every
\* shifted chunk is below 2^31.
RECURSIVE ReadGroup(_, _, _, _)
ReadGroup(encoded, index, result, shift) ==
  IF index > Len(encoded) THEN [result |-> result, index |-> index + 1]
  ELSE LET b == encoded[index] - 63
           chunk == ((b % 32) + 32) % 32
           r == result + chunk * (2 ^ shift)
       IN IF b >= 32 THEN ReadGroup(encoded, index + 1, r, shift + 5)
          ELSE [result |-> r, index |-> index + 1]

\* (result & 1) ? ~(result >> 1) : (result >> 1)
SignedDelta(result) ==
  IF result % 2 = 1 THEN -(result \div 2) - 1 ELSE result \div 2

\* lat / factor, in units of 10^-5 degrees
Scaled(x, factor) ==
  LET unit == 10 ^ DefaultPrecision
  IN IF factor <= unit THEN x * (unit \div factor)
     ELSE x \div (factor \div unit)

\* the while loop of decodePolyline from `index' on (1-based)
RECURSIVE DecodeFrom(_, _, _, _, _)
DecodeFrom(encoded, index, lat, lng, factor) ==
  IF index > Len(encoded) THEN <<>>
  ELSE LET g1 == ReadGroup(encoded, index, 1, 0)
           lat1 == lat + SignedDelta(g1.result)
           g2 == ReadGroup(encoded, g1.index, 1, 0)
           lng1 == lng + SignedDelta(g2.result)
       IN <<(<<JsNumber(Scaled(lat1, factor)), JsNumber(Scaled(lng1, factor))>>)>>
          \o DecodeFrom(encoded, g2.index, lat1, lng1, factor)

decodePolyline(encoded, precision) ==
  IF encoded = <<>> THEN <<>>
  ELSE DecodeFrom(encoded, 1, 0, 0, 10 ^ precision)

\* /^[a-zA-Z0-9_`~@\-\.]*$/
PolylineChars ==
  (97..122) \cup (65..90) \cup (48..57) \cup {95, 96, 126, 64, 45, 46}

isEncodedPolyline(str) ==
  /\ str.type = "string"
  /\ str.items # <<>>
  /\ Len(str.items) > 10
  /\ \A i \in 1..Len(str.items) : str.items[i] \in PolylineChars

\* what a call does: it returns a list of [lat, lng] points or it throws
Returned(points) == [status |-> "returned", points |-> points]
Threw == [status |-> "threw", points |-> <<>>]

\* the record of a call of the exported function `f'
Called(f, outcome) ==
  [call |-> f, status |-> outcome.status, points |-> outcome.points]
NotCalled == [call |-> "none", status |-> "none", points |-> <<>>]

keepAxes(coord) == <<parseFloat(coord.items[1]), parseFloat(coord.items[2])>>

\* `const [lng, lat] = coord; return [parseFloat(lat), parseFloat(lng)]'
SwapAxes(coord) == <<parseFloat(coord.items[2]), parseFloat(coord.items[1])>>

\* the callback of data.map in processPolylineData; reading a property of
\* null throws a TypeError
ThrowsOn(coord) == coord.type = "null"

MapCoordinate(coord) ==
  IF coord.type = "array" /\ Len(coord.items) >= 2 THEN SwapAxes(coord)
  ELSE IF coord.type = "object"
  THEN <<parseFloat(Or(coord.items[1], coord.items[2])),
         parseFloat(Or(coord.items[3], coord.items[4]))>>
  ELSE <<JsNumber(0), JsNumber(0)>>

processPolylineData(d) ==
  IF d.type = "array"
  THEN IF \E i \in 1..Len(d.items) : ThrowsOn(d.items[i]) THEN Threw
       ELSE Returned([i \in 1..Len(d.items) |-> MapCoordinate(d.items[i])])
  ELSE IF d.type = "string" /\ isEncodedPolyline(d)
  THEN Returned(decodePolyline(d.items, DefaultPrecision))
  ELSE Returned(<<>>)


(* ------------------------------ normalizers ---------------------------- *)
(* A raw polyline item of GetRoutePolyline is a value whose `type' tells   *)
(* where its geometry is: "nested" (polyline_latlng.features[0].geometry   *)
(* .coordinates), "flat" (coordinates), "encoded" (polyline string) or     *)
(* "bare" (none); `n' is its segment_id (0 when missing), `items' the      *)
(* geometry.  A raw AVL group is of type "group" (avl_data is the array    *)
(* `items') or "groupNoData"; a sample is of type "sample".                *)
RawItem(type, segment, geometry) == JsValue(type, segment, geometry)

\* the callbacks of coords.map in extractCoordinatesFromPolylineData
ExtractCoordinate(coord) ==
  IF coord.type = "array" /\ Len(coord.items) >= 2
  THEN JsArray(<<coord.items[1], coord.items[2]>>)
  ELSE JsArray(<<JsNumber(0), JsNumber(0)>>)

extractCoordinatesFromPolylineData(item) ==
  IF item.type \in {"nested", "flat"}
  THEN [i \in 1..Len(item.items) |-> ExtractCoordinate(item.items[i])]
  ELSE <<>>

\* item.segment_id || `ROUTE_${index}`: a synthesized id is the negative
\* of the item's place in the batch
SegmentOf(item, index) == IF item.n # 0 THEN item.n ELSE -index

\* reading a property of a null or undefined batch entry throws
IsNullish(v) == v.type \in {"null", "undefined"}

\* getGeoJSONPolylines after the fetch: data.result.map builds one
\* LineString entry per item; an exception anywhere ends in the catch
\* branch, which returns an empty result
getGeoJSONPolylines(batch) ==
  IF \E i \in 1..Len(batch) : IsNullish(batch[i]) THEN <<>>
  ELSE [i \in 1..Len(batch) |->
          JsValue("LineString", SegmentOf(batch[i], i),
                  extractCoordinatesFromPolylineData(batch[i]))]

\* processGeoJSONPolyline: a LineString entry becomes a route record with
\* the axes of every coordinate swapped; anything else gives null
processGeoJSONPolyline(entry) ==
  IF entry.type = "LineString"
  THEN JsValue("route", entry.n,
               [i \in 1..Len(entry.items) |->
                  JsArray(<<entry.items[i].items[2], entry.items[i].items[1]>>)])
  ELSE JsNull

\* processMultiplePolylines on a response: the entries that processed to a
\* record, in the order of the response
ProcessedPolylines(result) ==
  SelectSeq([i \in 1..Len(result) |-> processGeoJSONPolyline(result[i])],
            LAMBDA r : r # JsNull)

\* the two nested forEach of fetchAllVehicles that flatten avlData.result;
\* a null group or a null sample throws
RECURSIVE Flatten(_)
Flatten(groups) ==
  IF groups = <<>> THEN <<>>
  ELSE LET g == Head(groups)
       IN (IF g.type = "group"
           THEN [i \in 1..Len(g.items) |-> JsValue("vehicle", g.n, g.items[i].items)]
           ELSE <<>>) \o Flatten(Tail(groups))

FlattenAvlData(groups) ==
  IF \E i \in 1..Len(groups) :
       \/ IsNullish(groups[i])
       \/ groups[i].type = "group"
            /\ \E j \in 1..Len(groups[i].items) : IsNullish(groups[i].items[j])
  THEN Threw
  ELSE Returned(Flatten(groups))


(* -------------------- stop lookup of components/Map.tsx ---------------- *)
(* drawPolylinesFromGeoJSON of src/src/components/Map.tsx for one selected *)
(* route.  A route is a value of type "route" with `n' its id and `items'  *)
(* <<segment_id, name>> (segment_id 0 when missing); a processed polyline  *)
(* is of type "polyline" with `n' its segmentId and `items' <<name>>.      *)
ApiRoute(id, segment, name) == JsValue("route", id, <<segment, name>>)
ProcessedPolyline(segment, name) == JsValue("polyline", segment, <<name>>)

\* route.segment_id || route.id: the key under which the stops of a
\* selected route are put into routeStopsMap
StopsMapKey(route) == IF route.items[1] # 0 THEN route.items[1] ELSE route.n

\* the matchingRoute test
MapRouteMatches(route, poly) ==
  \/ route.items[1] = poly.n
  \/ route.n = poly.n
  \/ route.items[2] = poly.items[1]

\* routeStopsMap.get(polylineInfo.segmentId) after the stops of the
\* selected route were fetched by route.name
StopsLookup(route, poly) ==
  IF StopsMapKey(route) = poly.n
  THEN SortBySequence(NetworkStops(route.items[2]))
  ELSE <<>>

\* the lines drawn, each with the sequence numbers of its stop markers
MapDrawPolylines(route, polys) ==
  LET drawn == SelectSeq(polys, LAMBDA p : MapRouteMatches(route, p))
  IN [i \in 1..Len(drawn) |->
        JsValue("line", drawn[i].n, StopsLookup(route, drawn[i]))]


(* -------------------------------- Init --------------------------------- *)
\* the component and the page right after the first render
Mounted ==
  /\ selectedRoutesForMap = {}
  /\ polylineData = "none"
  /\ pageFetch = "pending"
  /\ commit = "init"
  /\ renderPending = FALSE
  /\ mapRef = FALSE
  /\ routeLinesRef = EmptyBag
  /\ stopMarkersRef = EmptyBag
  /\ vehicleMarkersRef = NoVehicleMarkers
  /\ intervalRef = <<>>
  /\ polylinesDrawnRef = FALSE
  /\ currentPolylineDataRef = "none"
  /\ currentSelectedRoutesRef = {}
  /\ lastPolylineUpdateRef = 0
  /\ lastVehicleUpdateRef = 0
  /\ connectionStatus = "loading"
  /\ now = VehicleMinGap + PollInterval
  /\ ticks = 0
  /\ avlInFlight = <<>>
  /\ draws = EmptyBag
  /\ apiCache = [k \in {} |-> 0]
  /\ anims = <<>>
  /\ markerSeq = 0
  /\ hist = [op |-> "other", routeOps |-> 0, fitBoundsCalls |-> 0,
             applied |-> FALSE, staleSetLatLng |-> FALSE, cleared |-> 0,
             snapHandles |-> NoVehicleMarkers, settled |-> FALSE,
             overtaken |-> FALSE]
  /\ selectedRouteForModal = NoRoute
  /\ stopFilter = AllStops
  /\ loadingStops = FALSE
  /\ stops = <<>>
  /\ filteredStops = <<>>
  /\ stopsRequests = EmptyBag
  /\ dialog = NoRoute

Init ==
  /\ Mounted
  /\ rawInput = JsNull
  /\ decoded = NotCalled

\* The observation record: `op' is the kind of the last handler
\* ("reconcile", "snapshot", "avlFailure" or "other"), `routeOps' its draw
\* and remove calls on route lines and stop markers, `cleared' the vehicle
\* markers its failure branch removed, `staleSetLatLng' whether a superseded
\* animation moved a marker in it; `fitBoundsCalls' counts the camera fits
\* of the session, `applied' tells that the polyline effect has reconciled
\* the current props, `snapHandles' are the marker handles of the vehicles
\* of the last reconciled snapshot, `settled' whether the handler was an
\* animation frame in which the only interpolation of a marker ended,
\* `overtaken' whether the snapshot applied in it belongs to a request that
\* was started before one whose snapshot had been applied already.
NoCalls == [hist EXCEPT !.op = "other", !.routeOps = 0,
                        !.staleSetLatLng = FALSE, !.cleared = 0,
                        !.settled = FALSE, !.overtaken = FALSE]

Reconciled == [NoCalls EXCEPT !.op = "reconcile"]

\* copy a transformed route state back into the refs
ApplyRouteState(R, h) ==
  /\ routeLinesRef' = R.lines
  /\ stopMarkersRef' = R.stops
  /\ polylinesDrawnRef' = R.drawn
  /\ currentPolylineDataRef' = R.curData
  /\ currentSelectedRoutesRef' = R.curSel
  /\ lastPolylineUpdateRef' = R.lastUpd
  /\ draws' = R.draws
  /\ apiCache' = R.cache
  /\ hist' = [h EXCEPT !.routeOps = R.ops, !.fitBoundsCalls = R.fit]

(* ------------------------------ the clock ------------------------------ *)
Tick(d) ==
  /\ commit = "idle"
  /\ now' = now + d
  /\ ticks' = ticks + 1
  /\ hist' = NoCalls
  /\ UNCHANGED <<pageVars, commit, renderPending, mapRef, routeLinesRef,
                 stopMarkersRef, polylinesDrawnRef, currentPolylineDataRef,
                 currentSelectedRoutesRef, lastPolylineUpdateRef, draws,
                 apiCache, vehicleVars, intervalRef, codecVars, modalVars>>

(* ------------------------- selection handlers -------------------------- *)
\* handleRouteCheckboxChange / handleSelectAllChange of RoutesList, then
\* setSelectedRoutesForMap of the page: a new selection array is rendered
SelectionsFrom(sel) ==
  {sel \cup {r} : r \in Routes \ sel} \cup {sel \ {r} : r \in sel}
  \cup (IF sel # Routes THEN {Routes} ELSE {{}})

SelectRoutes(newSel) ==
  /\ commit = "idle"
  /\ newSel \in SelectionsFrom(selectedRoutesForMap)
  /\ selectedRoutesForMap' = newSel
  /\ commit' = "cleanup"
  /\ renderPending' = FALSE
  /\ hist' = [NoCalls EXCEPT !.applied = FALSE]
  /\ UNCHANGED <<polylineData, pageFetch, mapRef, routeVars, vehicleVars,
                 intervalRef, clockVars, codecVars, modalVars>>

\* a re-render scheduled by a state update of the component: drawRoutePaths
\* is a new function on every render, so the polyline effect runs again
Rerender ==
  /\ commit = "idle"
  /\ renderPending
  /\ renderPending' = FALSE
  /\ commit' = "polyline"
  /\ hist' = NoCalls
  /\ UNCHANGED <<pageVars, mapRef, routeVars, vehicleVars, intervalRef,
                 clockVars, codecVars, modalVars>>


(* --------------------------- effect callbacks -------------------------- *)
\* cleanup of the init effect: its dependency startVehicleTracking changes
\* with selectedRoutesForMap, so every new selection runs it
CleanupEffect ==
  /\ commit = "cleanup"
  /\ intervalRef' = <<>>
  /\ vehicleMarkersRef' = clearVehicleMarkers(vehicleMarkersRef)
  /\ mapRef' = FALSE
  /\ ApplyRouteState([clearRouteElements(RouteState) EXCEPT !.curSel = {}],
                     [NoCalls EXCEPT !.applied = FALSE])
  /\ commit' = "init"
  /\ UNCHANGED <<pageVars, renderPending, lastVehicleUpdateRef,
                 connectionStatus, avlInFlight, anims, markerSeq, clockVars, codecVars, modalVars>>

\* body of the init effect: create the map, startVehicleTracking
InitEffect ==
  /\ commit = "init"
  /\ commit' = "polyline"
  /\ IF mapRef
     THEN UNCHANGED <<mapRef, intervalRef, lastVehicleUpdateRef,
                      connectionStatus, avlInFlight, renderPending>>
     ELSE /\ mapRef' = TRUE
          /\ fetchAllVehicles(selectedRoutesForMap)
          /\ intervalRef' = <<[sel |-> selectedRoutesForMap,
                               due |-> now + PollInterval]>>
  /\ hist' = NoCalls
  /\ UNCHANGED <<pageVars, routeVars, vehicleMarkersRef, anims, markerSeq,
                 clockVars, codecVars, modalVars>>

\* the polyline effect, up to the first await that leaves the event loop
PolylineEffect ==
  /\ commit = "polyline"
  /\ commit' = "idle"
  /\ LET R == RouteState
         rateLimited == /\ mapRef
                        /\ shouldUpdate(R)
                        /\ now - R.lastUpd < PolylineMinGap
     IN ApplyRouteState(PolylineEffectBody(R),
                        [Reconciled EXCEPT
                           !.applied = IF rateLimited \/ ~mapRef THEN @
                                       ELSE TRUE])
  /\ UNCHANGED <<pageVars, renderPending, mapRef, vehicleVars, intervalRef,
                 clockVars, codecVars, modalVars>>

(* ------------------------ the polyline endpoint ------------------------ *)
\* fetchInitialData of the page resolves: getGeoJSONPolylines caches a
\* well-formed or an empty answer and the page sets the polylineData prop
PolylineOutcomes == {"ok", "invalid", "fail"}

CachePolylines(cache, outcome) ==
  IF outcome = "ok"
  THEN setCachedData(cache, PolylinesKey, "full", PolylinesTTL, now)
  ELSE IF outcome = "invalid"
  THEN setCachedData(cache, PolylinesKey, "empty", PolylinesTTL, now)
  ELSE cache

PolylinesLoaded(outcome) ==
  /\ commit = "idle"
  /\ pageFetch = "pending"
  /\ pageFetch' = "done"
  /\ polylineData' = IF outcome = "ok" THEN "full" ELSE "empty"
  /\ apiCache' = CachePolylines(apiCache, outcome)
  /\ commit' = "polyline"
  /\ renderPending' = FALSE
  /\ hist' = [NoCalls EXCEPT !.applied = FALSE]
  /\ UNCHANGED <<selectedRoutesForMap, mapRef, routeLinesRef, stopMarkersRef,
                 polylinesDrawnRef, currentPolylineDataRef,
                 currentSelectedRoutesRef, lastPolylineUpdateRef, draws,
                 vehicleVars, intervalRef, clockVars, codecVars, modalVars>>


(* --------------------- continuations of the reconciler ----------------- *)
\* one pending entry is taken out when its response arrives
Take(pending, x) == pending (-) SetToBag({x})

StopsOutcomes == {"ok", "fail"}

unsortedStopsResult(name, outcome) ==
  IF outcome = "ok" THEN NetworkStops(name) ELSE <<>>

\* getStopsForRoute after its fetch: a well-formed answer is mapped, sorted
\* by sequence and cached; a failed fetch yields null (no stops, no entry)
StopsResult(name, outcome) ==
  IF outcome = "ok" THEN SortBySequence(NetworkStops(name)) ELSE <<>>

CacheStops(cache, name, outcome) ==
  IF outcome = "ok"
  THEN setCachedData(cache, StopsKey(name), StopsResult(name, outcome),
                     StopsTTL, now)
  ELSE cache

\* drawPolylinesFromGeoJSON after `await getStopsForRoute': the stop markers
\* of the awaited route are drawn and the loop goes on with the next route
ResumeStops(R, d, outcome) ==
  LET name == PolyName(d.cur)
      R1 == [R EXCEPT !.cache = CacheStops(@, name, outcome)]
  IN DrawLoop(DrawStops(R1, d.cur, StopsResult(name, outcome)),
              d.rest, d.first, d.bounds)

\* drawRoutePaths after `await getGeoJSONPolylines'
ResumePolylines(R, d, outcome) ==
  LET R1 == [R EXCEPT !.cache = CachePolylines(@, outcome)]
  IN IF outcome = "ok"
     THEN drawPolylinesFromGeoJSON(R1, "full", d.routes)
     ELSE legacyRoutePaths(R1, d.routes)

\* drawRoutePaths after `await getRoutePolyline'
ResumeLegacy(R, d, outcome) ==
  [R EXCEPT !.cache = IF outcome = "ok"
                      THEN setCachedData(@, LegacyKey, "legacy",
                                         PolylinesTTL, now)
                      ELSE @,
            !.drawn = TRUE]

DrawResume(d, outcome) ==
  /\ commit = "idle"
  /\ d \in BagToSet(draws)
  /\ LET R == [RouteState EXCEPT !.draws = Take(@, d)]
     IN /\ outcome \in (IF d.kind = "polylines" THEN PolylineOutcomes
                        ELSE StopsOutcomes)
        /\ ApplyRouteState(
             IF d.kind = "stops" THEN ResumeStops(R, d, outcome)
             ELSE IF d.kind = "polylines" THEN ResumePolylines(R, d, outcome)
             ELSE ResumeLegacy(R, d, outcome),
             Reconciled)
  /\ UNCHANGED <<pageVars, commit, renderPending, mapRef, vehicleVars,
                 intervalRef, clockVars, codecVars, modalVars>>

(* --------------------------- stops modal ------------------------------- *)
(* fetchStops and handleFilterChange of src/src/components/RoutesList.tsx. *)
(* A stop is its sequence number, which is also its name.  Every route row *)
(* has a dialog of its own that lists `filteredStops'; while a dialog is   *)
(* open the triggers of the other rows cannot be clicked.                  *)
outsideModal == <<pageVars, commit, renderPending, mapRef, routeLinesRef,
                  stopMarkersRef, polylinesDrawnRef, currentPolylineDataRef,
                  currentSelectedRoutesRef, lastPolylineUpdateRef, draws,
                  vehicleVars, intervalRef, clockVars, hist, codecVars>>

\* the part of fetchStops after `await apiService.getStopsForRoute'
StopsLoaded(list) ==
  /\ stops' = list
  /\ filteredStops' = list
  /\ loadingStops' = FALSE

\* click on `View Stops' of route r: the state is reset and the stops are
\* requested; a cached answer is applied before any other event
fetchStops(r) ==
  /\ dialog = NoRoute
  /\ BagCardinality(stopsRequests) < MaxStopsRequests
  /\ selectedRouteForModal' = r
  /\ stopFilter' = AllStops
  /\ dialog' = r
  /\ apiCache' = getCachedData(apiCache, StopsKey(RouteName(r)), now)
  /\ IF CacheHit(apiCache, StopsKey(RouteName(r)), now)
     THEN /\ StopsLoaded(apiCache[StopsKey(RouteName(r))].data)
          /\ UNCHANGED stopsRequests
     ELSE /\ loadingStops' = TRUE
          /\ stops' = <<>>
          /\ filteredStops' = <<>>
          /\ stopsRequests' = stopsRequests (+) SetToBag({r})
  /\ UNCHANGED outsideModal

\* the stops of a pending fetchStops(r) arrive
StopsResponse(r, outcome) ==
  /\ r \in BagToSet(stopsRequests)
  /\ stopsRequests' = Take(stopsRequests, r)
  /\ apiCache' = CacheStops(apiCache, RouteName(r), outcome)
  /\ StopsLoaded(StopsResult(RouteName(r), outcome))
  /\ UNCHANGED <<selectedRouteForModal, stopFilter, dialog, outsideModal>>

handleFilterChange(value) ==
  /\ dialog # NoRoute
  /\ value \in {AllStops} \cup Range(stops)
  /\ stopFilter' = value
  /\ filteredStops' = IF value = AllStops THEN stops
                      ELSE SelectSeq(stops, LAMBDA stop : stop = value)
  /\ UNCHANGED <<selectedRouteForModal, loadingStops, stops, stopsRequests,
                 dialog, apiCache, outsideModal>>

\* the open dialog is dismissed
CloseDialog ==
  /\ dialog # NoRoute
  /\ dialog' = NoRoute
  /\ UNCHANGED <<selectedRouteForModal, stopFilter, loadingStops, stops,
                 filteredStops, stopsRequests, apiCache, outsideModal>>

StopNames == UNION {Range(NetworkStops(RouteName(r))) : r \in Routes}

ModalNext ==
  \/ \E r \in Routes : fetchStops(r)
  \/ \E r \in Routes, outcome \in StopsOutcomes : StopsResponse(r, outcome)
  \/ \E value \in {AllStops} \cup StopNames : handleFilterChange(value)
  \/ CloseDialog

ModalSpec == Init /\ [][ModalNext]_vars


(* ---------------------------- vehicle polling -------------------------- *)
\* the setInterval callback of startVehicleTracking
IntervalTick ==
  /\ commit = "idle"
  /\ intervalRef # <<>>
  /\ now >= intervalRef[1].due
  /\ fetchAllVehicles(intervalRef[1].sel)
  /\ intervalRef' = <<[intervalRef[1] EXCEPT !.due = now + PollInterval]>>
  /\ hist' = NoCalls
  /\ UNCHANGED <<pageVars, commit, mapRef, routeVars, vehicleMarkersRef,
                 anims, markerSeq, clockVars, codecVars, modalVars>>

\* a telemetry snapshot: the vehicles present and their positions
Snapshots == UNION {[S -> Positions] : S \in SUBSET Vehicles}

\* handles of the markers of the vehicles of a snapshot
HandlesOf(markers, ids) ==
  [v \in ids \cap DOMAIN markers |-> markers[v].handle]

\* fetchAllVehicles after `await getAvlData' with a usable result
AvlSnapshot(sel, snapshot) ==
  /\ commit = "idle"
  /\ snapshot \in Snapshots
  /\ \E i \in DOMAIN avlInFlight :
       /\ avlInFlight[i].sel = sel
       /\ avlInFlight' = Overtake(avlInFlight, i)
       /\ hist' = [NoCalls EXCEPT
                     !.op = "snapshot",
                     !.overtaken = avlInFlight[i].late,
                     !.snapHandles =
                        HandlesOf(MarkersAfterSnapshot(
                                    vehicleMarkersRef, snapshot,
                                    FilteredVehicles(snapshot, sel),
                                    markerSeq),
                                  DOMAIN snapshot)]
  /\ LET shown == FilteredVehicles(snapshot, sel)
         markers == MarkersAfterSnapshot(vehicleMarkersRef, snapshot, shown,
                                         markerSeq)
     IN /\ vehicleMarkersRef' = markers
        /\ anims' = anims \o StartedAnims(SetToSeq(shown), vehicleMarkersRef,
                                          snapshot)
        /\ markerSeq' = markerSeq
                        + Cardinality(shown \ DOMAIN vehicleMarkersRef)
  /\ connectionStatus' = "connected"
  /\ renderPending' = TRUE
  /\ UNCHANGED <<pageVars, commit, mapRef, routeVars, lastVehicleUpdateRef,
                 intervalRef, clockVars, codecVars, modalVars>>

clearRoutesOnFailure(R) == clearRouteElements(R)

\* "Only clear markers, preserve routes": what the else and the catch
\* branch of fetchAllVehicles do to the route lines and stop markers
preserveRoutes(R) == R

\* fetchAllVehicles when the fetch failed: getAvlData returns null and the
\* else branch runs ("null"); a result that cannot be flattened throws and
\* the catch branch runs ("malformed").  Both clear the vehicle markers.
AvlFailures == {"null", "malformed"}

AvlFailure(sel, outcome) ==
  /\ commit = "idle"
  /\ outcome \in AvlFailures
  /\ vehicleMarkersRef' = clearVehicleMarkers(vehicleMarkersRef)
  /\ connectionStatus' = IF outcome = "null" THEN "connected" ELSE "error"
  /\ \E i \in DOMAIN avlInFlight :
       avlInFlight[i].sel = sel /\ avlInFlight' = Answered(avlInFlight, i)
  /\ renderPending' = TRUE
  /\ ApplyRouteState(preserveRoutes(RouteState),
                     [NoCalls EXCEPT
                        !.op = "avlFailure",
                        !.cleared = Cardinality(DOMAIN vehicleMarkersRef),
                        !.snapHandles = NoVehicleMarkers])
  /\ UNCHANGED <<pageVars, commit, mapRef, lastVehicleUpdateRef,
                 anims, markerSeq, intervalRef, clockVars, codecVars, modalVars>>


(* --------------------------- animation frames -------------------------- *)
frozenAnimPos(a) == a.start

\* position written by an animate closure at its current step
AnimPos(a) == a.start + a.step * a.cur

\* the closure moves the marker object it captured; that object is on the
\* map while the table still holds its handle
Moves(a, markers) == a.veh \in DOMAIN markers /\ markers[a.veh].handle = a.handle

\* one animation frame: every pending animate callback runs once, in the
\* order of registration, and re-registers itself while currentStep < steps
Frame ==
  /\ commit = "idle"
  /\ anims # <<>>
  /\ LET stepped == [i \in 1..Len(anims) |-> [anims[i] EXCEPT !.cur = @ + 1]]
         writers(v) == {i \in 1..Len(stepped) :
                          stepped[i].veh = v /\ Moves(stepped[i], vehicleMarkersRef)}
         last(v) == CHOOSE i \in writers(v) : \A j \in writers(v) : j <= i
     IN /\ vehicleMarkersRef' =
             [v \in DOMAIN vehicleMarkersRef |->
                IF writers(v) = {} THEN vehicleMarkersRef[v]
                ELSE [vehicleMarkersRef[v] EXCEPT !.pos = AnimPos(stepped[last(v)])]]
        /\ anims' = SelectSeq(stepped, LAMBDA a : a.cur < AnimSteps)
        /\ hist' = [NoCalls EXCEPT
                      !.staleSetLatLng =
                         \E v \in DOMAIN vehicleMarkersRef :
                            Cardinality(writers(v)) > 1,
                      !.settled =
                         \E v \in DOMAIN vehicleMarkersRef :
                            /\ Cardinality(writers(v)) = 1
                            /\ stepped[last(v)].cur = AnimSteps]
  /\ UNCHANGED <<pageVars, commit, renderPending, mapRef, routeVars,
                 lastVehicleUpdateRef, connectionStatus, avlInFlight,
                 markerSeq, intervalRef, clockVars, codecVars, modalVars>>

(* ------------------------------ behaviours ----------------------------- *)
\* the whole program
Next ==
  \/ \E d \in TickSteps : ticks < MaxTicks /\ Tick(d)
  \/ \E sel \in SUBSET Routes : SelectRoutes(sel)
  \/ Rerender
  \/ CleanupEffect
  \/ InitEffect
  \/ PolylineEffect
  \/ \E o \in PolylineOutcomes : PolylinesLoaded(o)
  \/ \E d \in BagToSet(draws), o \in PolylineOutcomes : DrawResume(d, o)
  \/ IntervalTick
  \/ \E sel \in SUBSET Routes, s \in Snapshots : AvlSnapshot(sel, s)
  \/ \E sel \in SUBSET Routes, o \in AvlFailures : AvlFailure(sel, o)
  \/ Frame

Spec == Init /\ [][Next]_vars

\* The program while GetGeoJSONPolylines answers with a well-formed payload
\* before the user ticks a route: every draw goes through
\* drawPolylinesFromGeoJSON with the polylineData prop.  Within MaxTicks no
\* marker is moved twice, so no animation frame is pending here.
SelectLoaded(sel) == pageFetch = "done" /\ SelectRoutes(sel)

LoadedNext ==
  \/ \E d \in TickSteps : ticks < MaxTicks /\ Tick(d)
  \/ \E sel \in SUBSET Routes : SelectLoaded(sel)
  \/ Rerender
  \/ CleanupEffect
  \/ InitEffect
  \/ PolylineEffect
  \/ PolylinesLoaded("ok")
  \/ \E d \in BagToSet(draws), o \in StopsOutcomes : DrawResume(d, o)
  \/ IntervalTick
  \/ \E sel \in SUBSET Routes, s \in Snapshots : AvlSnapshot(sel, s)
  \/ \E sel \in SUBSET Routes, o \in AvlFailures : AvlFailure(sel, o)

LoadedSpec == Init /\ [][LoadedNext]_vars

\* The program while the polyline endpoints do not answer: the telemetry
\* pipeline, the selection handlers and the effects, over a longer time.
TelemetryNext ==
  \/ \E d \in TickSteps : ticks < MaxTelemetryTicks /\ Tick(d)
  \/ \E sel \in SUBSET Routes : SelectRoutes(sel)
  \/ Rerender
  \/ CleanupEffect
  \/ InitEffect
  \/ PolylineEffect
  \/ IntervalTick
  \/ \E sel \in SUBSET Routes, s \in Snapshots : AvlSnapshot(sel, s)
  \/ \E sel \in SUBSET Routes, o \in AvlFailures : AvlFailure(sel, o)
  \/ Frame

TelemetrySpec == Init /\ [][TelemetryNext]_vars

\* A burst of selection changes: the user changes the selection in the
\* instant the clock starts from, the polyline payload is well-formed and
\* the telemetry feed fails.  Every handler that is ready runs (the event
\* loop starves no callback, every request is answered, the timer fires).
SelectBurst(sel) == ticks = 0 /\ SelectLoaded(sel)

BurstNext ==
  \/ \E d \in TickSteps : ticks < MaxTicks /\ Tick(d)
  \/ \E sel \in SUBSET Routes : SelectBurst(sel)
  \/ Rerender
  \/ CleanupEffect
  \/ InitEffect
  \/ PolylineEffect
  \/ PolylinesLoaded("ok")
  \/ \E d \in BagToSet(draws), o \in StopsOutcomes : DrawResume(d, o)
  \/ IntervalTick
  \/ \E sel \in SUBSET Routes, o \in AvlFailures : AvlFailure(sel, o)

BurstFair ==
  /\ WF_vars(\E d \in TickSteps : ticks < MaxTicks /\ Tick(d))
  /\ WF_vars(Rerender)
  /\ WF_vars(CleanupEffect)
  /\ WF_vars(InitEffect)
  /\ WF_vars(PolylineEffect)
  /\ WF_vars(PolylinesLoaded("ok"))
  /\ WF_vars(\E d \in BagToSet(draws), o \in StopsOutcomes : DrawResume(d, o))
  /\ WF_vars(IntervalTick)
  /\ WF_vars(\E sel \in SUBSET Routes, o \in AvlFailures : AvlFailure(sel, o))

BurstSpec == Init /\ [][BurstNext]_vars /\ BurstFair

(* ---------------------------- codec behaviours ------------------------- *)
\* longest coordinate array handed to the codec
MaxCoords == 2

componentVars == <<pageVars, commit, renderPending, mapRef, routeVars,
                   vehicleVars, intervalRef, clockVars, hist, modalVars>>

\* longitudes and latitudes of the feed, in units of 10^-5 degrees
CoordValues == {-8394000, 4365000}

CoordinatePairs ==
  {JsArray(<<JsNumber(x), JsNumber(y)>>) : x \in CoordValues, y \in CoordValues}

\* [lng, lat, elevation]
CoordinateTriples ==
  {JsArray(<<JsNumber(x), JsNumber(y), JsNumber(0)>>) :
     x \in CoordValues, y \in CoordValues}

HtmlString == JsString(<<60, 104, 116, 109, 108, 62>>)

\* "_p~iF~ps|U_ulLnnqC_mqNvxq`@"
EncodedReference == JsString(<<95, 112, 126, 105, 70, 126, 112, 115, 124, 85, 95, 117, 108, 76, 110, 110, 113, 67, 95, 109, 113, 78, 118, 120, 113, 96, 64>>)

\* "@@@@@@@@@@@@"
EncodedSteps == JsString([i \in 1..12 |-> 64])

EmptyObject == JsObject(JsUndefined, JsUndefined, JsUndefined, JsUndefined)

MalformedElements ==
  {JsNull, JsUndefined, JsNumber(7), JsArray(<<JsNumber(1)>>), EmptyObject,
   HtmlString,
   JsObject(JsNumber(4365000), JsUndefined, JsNumber(-8394000), JsUndefined),
   JsObject(JsUndefined, JsNumber(4365000), JsUndefined, JsNumber(-8394000))}

CodecElements == CoordinatePairs \cup CoordinateTriples \cup MalformedElements

CodecInputs ==
  {JsNull, JsUndefined, JsNumber(7), JsString(<<>>), EmptyObject, HtmlString,
   EncodedReference, EncodedSteps}
  \cup {JsArray(items) :
          items \in UNION {[1..n -> CodecElements] : n \in 0..MaxCoords}}

\* longest polyline or AVL batch handed to a normalizer
MaxBatch == 2

APair == JsArray(<<JsNumber(-8394000), JsNumber(4365000)>>)

RawPolylineItems ==
  {JsNull,
   RawItem("nested", 1, <<APair>>), RawItem("nested", 2, <<>>),
   RawItem("flat", 2, <<APair, APair>>), RawItem("encoded", 1, <<64, 64>>),
   RawItem("bare", 2, <<>>), RawItem("bare", 0, <<>>)}

Sample(id) == JsValue("sample", id, <<JsNumber(4365000), JsNumber(-8394000)>>)

RawAvlGroups ==
  {JsNull, JsValue("groupNoData", 1, <<>>), JsValue("group", 1, <<Sample(1)>>),
   JsValue("group", 2, <<Sample(2), JsNull>>), JsValue("group", 2, <<Sample(2)>>)}

BatchesOf(kind, entries) ==
  {JsValue(kind, 0, items) :
     items \in UNION {[1..n -> entries] : n \in 0..MaxBatch}}

NormalizerInputs ==
  BatchesOf("polylineBatch", RawPolylineItems)
  \cup BatchesOf("avlBatch", RawAvlGroups)

\* identifiers used for route ids, segment ids and names
Idents == 1..NumRoutes

SelectableRoutes ==
  {ApiRoute(id, seg, name) :
     id \in Idents, seg \in {0} \cup Idents, name \in Idents}

ProcessedPolylineSet ==
  {ProcessedPolyline(seg, name) : seg \in Idents, name \in Idents}

\* a selected route followed by the processed polylines of the payload
DrawRequests ==
  {JsValue("drawRequest", 0, <<r>> \o polys) :
     r \in SelectableRoutes,
     polys \in UNION {[1..n -> ProcessedPolylineSet] : n \in 1..MaxBatch}}

CodecInit ==
  /\ Mounted
  /\ rawInput \in CodecInputs \cup NormalizerInputs \cup DrawRequests
  /\ decoded = NotCalled

\* the polyline response `rawInput' goes through getGeoJSONPolylines and
\* processMultiplePolylines
NormalizePolylines ==
  /\ decoded = NotCalled
  /\ rawInput.type = "polylineBatch"
  /\ decoded' = Called("processMultiplePolylines",
                       Returned(ProcessedPolylines(
                                  getGeoJSONPolylines(rawInput.items))))
  /\ UNCHANGED <<componentVars, rawInput>>

\* Map.tsx draws the polylines of `rawInput' for its selected route
DrawFilteredPolylines ==
  /\ decoded = NotCalled
  /\ rawInput.type = "drawRequest"
  /\ decoded' = Called("drawPolylinesFromGeoJSON",
                       Returned(MapDrawPolylines(Head(rawInput.items),
                                                 Tail(rawInput.items))))
  /\ UNCHANGED <<componentVars, rawInput>>

\* fetchAllVehicles flattens the AVL response `rawInput'
FlattenVehicles ==
  /\ decoded = NotCalled
  /\ rawInput.type = "avlBatch"
  /\ decoded' = Called("fetchAllVehicles", FlattenAvlData(rawInput.items))
  /\ UNCHANGED <<componentVars, rawInput>>

\* a caller hands `rawInput' to processPolylineData
ProcessPolylineData ==
  /\ decoded = NotCalled
  /\ decoded' = Called("processPolylineData", processPolylineData(rawInput))
  /\ UNCHANGED <<componentVars, rawInput>>

\* a caller hands the string `rawInput' to decodePolyline
DecodePolyline ==
  /\ decoded = NotCalled
  /\ rawInput.type = "string"
  /\ decoded' = Called("decodePolyline",
                       Returned(decodePolyline(rawInput.items, DefaultPrecision)))
  /\ UNCHANGED <<componentVars, rawInput>>

CodecNext ==
  \/ ProcessPolylineData
  \/ DecodePolyline
  \/ NormalizePolylines
  \/ FlattenVehicles
  \/ DrawFilteredPolylines

CodecSpec == CodecInit /\ [][CodecNext]_vars


TypeOK ==
  /\ selectedRoutesForMap \subseteq Routes
  /\ polylineData \in {"none", "empty", "full"}
  /\ commit \in {"idle", "cleanup", "init", "polyline"}
  /\ mapRef \in BOOLEAN
  /\ DOMAIN vehicleMarkersRef \subseteq Vehicles
  /\ connectionStatus \in {"connected", "error", "loading"}
  /\ Len(avlInFlight) <= MaxTelemetryTicks + 1
  /\ BagCardinality(draws) <= MaxTelemetryTicks + 1

(* ------------------------------- claims -------------------------------- *)
\* C1: a run of the polyline effect for the props it has already
\* reconciled (same selected route ids, same polyline payload), with no
\* reconciliation still pending, makes no draw and no remove call on route
\* lines and stop markers.
C1_SecondReconciliationIsNoOp ==
  [][(PolylineEffect /\ hist.applied /\ draws = EmptyBag)
       => hist'.routeOps = 0]_vars

\* C2: after a telemetry snapshot has been reconciled, the vehicles that
\* have a marker are exactly the vehicles of the snapshot (the snapshot
\* being the vehicles that pass the selected-routes filter).
C2_MarkersAreSnapshotIds ==
  [][\A sel \in SUBSET Routes, s \in Snapshots :
       AvlSnapshot(sel, s)
         => DOMAIN vehicleMarkersRef' = FilteredVehicles(s, sel)]_vars

\* C3: a vehicle that has a marker after two consecutive reconciled
\* snapshots has the same marker handle after both.
C3_SameHandleAcrossSnapshots ==
  [][\A v \in DOMAIN hist.snapHandles \cap DOMAIN hist'.snapHandles :
       hist'.snapHandles[v] = hist.snapHandles[v]]_vars

\* C4: a step of a telemetry poll (its start, its snapshot, its failure)
\* leaves route lines and stop markers as they are and makes no draw or
\* remove call on them; a step of the route/stop reconciler leaves the
\* vehicle markers as they are.
VehiclePoll ==
  \/ IntervalTick
  \/ \E sel \in SUBSET Routes, s \in Snapshots : AvlSnapshot(sel, s)
  \/ \E sel \in SUBSET Routes, o \in AvlFailures : AvlFailure(sel, o)

RouteReconciliation ==
  \/ PolylineEffect
  \/ \E d \in BagToSet(draws), o \in StopsOutcomes : DrawResume(d, o)

C5_FitBoundsOnce == hist.fitBoundsCalls <= 1

\* C6: once no reconciliation is pending, every route line and every stop
\* marker on the map belongs to a route of the current selection.
OfSelection(p) == \E r \in selectedRoutesForMap : RouteMatches(r, p)

C6_OnlySelectedRoutesShown ==
  (commit = "idle" /\ draws = EmptyBag) =>
     /\ \A p \in BagToSet(routeLinesRef) : OfSelection(p)
     /\ \A m \in BagToSet(stopMarkersRef) : OfSelection(m.poly)

\* C7: at most one telemetry request is in flight at any time.
C7_AtMostOneFetchInFlight == Len(avlInFlight) <= 1

\* C8: an animation superseded by a newer one for the same marker never
\* moves that marker again.
C8_SupersededAnimationIsSilent == ~hist.staleSetLatLng

\* C9: the stops of one route name are never requested from the network
\* while an earlier request for the same name is still unanswered (two
\* overlapping calls make one request).
StopsInFlight(n) ==
  LET waiting == {d \in BagToSet(draws) :
                    d.kind = "stops" /\ PolyName(d.cur) = n}
      count[S \in SUBSET waiting] ==
        IF S = {} THEN 0
        ELSE LET d == CHOOSE x \in S : TRUE
             IN CopiesIn(d, draws) + count[S \ {d}]
  IN count[waiting]

C9_OneStopsRequestPerRoute == \A n \in Routes : StopsInFlight(n) <= 1

C11_StatusFollowsRequest ==
  [][/\ \A sel \in SUBSET Routes, o \in AvlFailures :
          AvlFailure(sel, o) => connectionStatus' = "error"
     /\ \A sel \in SUBSET Routes, s \in Snapshots :
          AvlSnapshot(sel, s) => connectionStatus' = "connected"
     /\ (connectionStatus' = "loading" /\ connectionStatus # "loading")
          => avlInFlight' # <<>>]_vars

\* C12: while the selection is not empty, after a telemetry snapshot has
\* been reconciled the vehicles that have a marker are exactly the vehicles
\* of the snapshot whose route is in the current selection.
C12_MarkersMatchSelection ==
  [][\A sel \in SUBSET Routes, s \in Snapshots :
       (AvlSnapshot(sel, s) /\ selectedRoutesForMap # {})
         => DOMAIN vehicleMarkersRef'
              = FilteredVehicles(s, selectedRoutesForMap)]_vars

\* C13: besides the request the page makes at load, no request to the
\* polyline endpoint is ever in flight.
C13_PolylinesRequestedOnce == \A d \in BagToSet(draws) : d.kind # "polylines"

\* C14: the teardown of the component stops the polling timer and leaves
\* no per-route stop entry in the cache.
C14_TeardownHaltsAndDrops ==
  [][CleanupEffect => /\ intervalRef' = <<>>
                      /\ \A n \in Routes : StopsKey(n) \notin DOMAIN apiCache']_vars

\* C15: for an array of [lng, lat] pairs (with or without a third element)
\* processPolylineData returns one point per pair, in the same order, with
\* the axes swapped to (lat, lng).
IsCoordinateArray(d) ==
  /\ d.type = "array"
  /\ \A i \in 1..Len(d.items) : d.items[i] \in CoordinatePairs \cup CoordinateTriples

AxesSwapped(d) ==
  [i \in 1..Len(d.items) |-> <<d.items[i].items[2], d.items[i].items[1]>>]

ReferencePoints ==
  <<(<<JsNumber(3850000), JsNumber(-12020000)>>),
    (<<JsNumber(4070000), JsNumber(-12095000)>>),
    (<<JsNumber(4325200), JsNumber(-12645300)>>)>>

C16_ReferenceVectorDecodes ==
  (decoded.call = "decodePolyline" /\ rawInput = EncodedReference)
    => decoded.points = ReferencePoints

\* C17: processPolylineData returns for every input, and returns the empty
\* list for an input that is neither an array nor an encoded polyline.
C17_DecoderIsTotal ==
  decoded.call = "processPolylineData"
    => /\ decoded.status = "returned"
       /\ (rawInput.type # "array" /\ ~isEncodedPolyline(rawInput))
            => decoded.points = <<>>

\* C18: of two stop markers of one route, the one rendered earlier has the
\* smaller or the same sequence number.
RenderedBefore(m1, m2) ==
  /\ m1.stopIndex # -1
  /\ (m2.stopIndex = -1 \/ m1.stopIndex < m2.stopIndex)

C18_StopsInSequenceOrder ==
  \A m1, m2 \in BagToSet(stopMarkersRef) :
     (m1.poly = m2.poly /\ RenderedBefore(m1, m2)) => m1.sequence <= m2.sequence

\* the polyline effect has just drawn route 1 alone with both its stops in
\* one run, which it only does when the stops come from the cache
C18_Witness ==
  /\ hist.op = "reconcile"
  /\ hist.routeOps >= 3
  /\ BagToSet(routeLinesRef) = {1}
  /\ {m.sequence : m \in BagToSet(stopMarkersRef)} = {1, 2}
  /\ draws = EmptyBag

\* C19: the first and the last stop marker of a route have the terminal
\* icon, every other stop marker the regular icon.
TerminalIcon == "stop-marker terminal-stop"
RegularIcon == "stop-marker regular-stop"

C19_TerminalStopsStyled ==
  \A m \in BagToSet(stopMarkersRef) :
     m.icon = IF m.stopIndex \in {0, -1} THEN TerminalIcon ELSE RegularIcon

\* C20: the commit of a new selection keeps the vehicle markers, the
\* polling timer and the map.
C20_SelectionKeepsVehicles ==
  [][CleanupEffect => /\ vehicleMarkersRef' = vehicleMarkersRef
                      /\ intervalRef' = intervalRef
                      /\ mapRef' = mapRef]_vars

\* C21: a call of fetchAllVehicles (by the timer or by a tracking start)
\* less than 4000 ms after the last accepted one issues no request and
\* leaves the markers, the status and the gate time alone; a request is
\* only issued 4000 ms or more after the previous accepted one.
FetchCall == IntervalTick \/ (InitEffect /\ ~mapRef)

C21_GateRejectsEarlyTicks ==
  [][/\ (FetchCall /\ now - lastVehicleUpdateRef < VehicleMinGap)
          => /\ avlInFlight' = avlInFlight
             /\ vehicleMarkersRef' = vehicleMarkersRef
             /\ connectionStatus' = connectionStatus
             /\ lastVehicleUpdateRef' = lastVehicleUpdateRef
     /\ Len(avlInFlight') > Len(avlInFlight)
          => /\ now - lastVehicleUpdateRef >= VehicleMinGap
             /\ lastVehicleUpdateRef' = now]_vars

\* tracking has been restarted for a new selection in the same instant as
\* the accepted fetch of the mount: the first fetch of the restart was
\* rejected, only the request of the mount can be in flight
C21_Witness ==
  /\ ticks = 0
  /\ intervalRef # <<>>
  /\ intervalRef[1].sel # {}
  /\ lastVehicleUpdateRef = now
  /\ \A i \in DOMAIN avlInFlight : avlInFlight[i].sel = {}

C23_OneRoutePerItem ==
  decoded.call = "processMultiplePolylines"
    => /\ Len(decoded.points) = Len(rawInput.items)
       /\ \A i \in 1..Len(decoded.points) :
            /\ decoded.points[i].n = SegmentOf(rawInput.items[i], i)
            /\ rawInput.items[i].type = "bare" => decoded.points[i].items = <<>>

\* C24: every well-formed item of a polyline batch has its route record
\* and every well-formed sample of a vehicle batch its vehicle record,
\* whatever malformed entries the batch holds besides.
WellFormedSamples(groups) ==
  {<<g, j>> \in (1..Len(groups)) \X (1..MaxBatch) :
     /\ groups[g].type = "group"
     /\ j <= Len(groups[g].items)
     /\ ~IsNullish(groups[g].items[j])}

C24_BadItemAffectsOnlyItself ==
  /\ decoded.call = "processMultiplePolylines"
       => \A i \in 1..Len(rawInput.items) :
            ~IsNullish(rawInput.items[i])
              => \E k \in 1..Len(decoded.points) :
                   decoded.points[k].n = SegmentOf(rawInput.items[i], i)
  /\ decoded.call = "fetchAllVehicles"
       => \A gj \in WellFormedSamples(rawInput.items) :
            \E k \in 1..Len(decoded.points) :
               decoded.points[k].n = rawInput.items[gj[1]].n

\* C25: no point returned by processPolylineData has a latitude or a
\* longitude that is not a number.
C25_NoNaNPoint ==
  (decoded.call = "processPolylineData" /\ decoded.status = "returned")
    => \A i \in 1..Len(decoded.points) :
         /\ decoded.points[i][1].type = "number"
         /\ decoded.points[i][2].type = "number"

\* C26: while the selection is empty and no reconciliation is pending, no
\* route line and no stop marker is on the map.
C26_EmptySelectionShowsNothing ==
  (selectedRoutesForMap = {} /\ commit = "idle" /\ draws = EmptyBag)
    => (routeLinesRef = EmptyBag /\ stopMarkersRef = EmptyBag)

\* C27: every pending interpolation has made at least one and fewer than
\* AnimSteps steps; an animation frame advances each of them by one step
\* and drops those that have made all their steps; and a marker whose only
\* interpolation ends in a frame is then at the position of the snapshot
\* that started the interpolation.
SoleInterpolation(i) ==
  /\ Moves(anims[i], vehicleMarkersRef)
  /\ \A j \in 1..Len(anims) :
       (j # i /\ anims[j].veh = anims[i].veh) => ~Moves(anims[j], vehicleMarkersRef)

C27_InterpolationEndsOnTarget ==
  [][/\ \A i \in 1..Len(anims') : anims'[i].cur \in 1..(AnimSteps - 1)
     /\ Frame =>
          /\ \A j \in 1..Len(anims') :
               \E i \in 1..Len(anims) : anims'[j] = [anims[i] EXCEPT !.cur = @ + 1]
          /\ \A i \in 1..Len(anims) :
               (anims[i].cur + 1 = AnimSteps /\ SoleInterpolation(i))
                 => vehicleMarkersRef'[anims[i].veh].pos = anims[i].end]_vars

\* an animation frame has just ended the only interpolation of a marker
C27_Witness ==
  /\ hist.settled
  /\ anims = <<>>
  /\ \E v \in DOMAIN vehicleMarkersRef : vehicleMarkersRef[v].pos \in Positions

\* C28: every route line drawn for the selected route has its stop markers
\* (the stops request of the route returns a non-empty list), whether the
\* polyline matched the route by segment_id, by id or by name.
C28_DrawnLinesHaveStops ==
  decoded.call = "drawPolylinesFromGeoJSON"
    => \A i \in 1..Len(decoded.points) : decoded.points[i].items # <<>>

\* C29: the stops held for the modal are those of the route the modal is
\* for: the answer to a request for another route is never displayed.
C29_ModalShowsSelectedRoute ==
  stops # <<>> =>
    /\ selectedRouteForModal # NoRoute
    /\ stops = StopsResult(RouteName(selectedRouteForModal), "ok")

\* C30: telemetry snapshots are applied in the order in which their
\* requests were started: no snapshot is applied after the snapshot of a
\* request that was started later.
C30_SnapshotsInStartOrder == ~(hist.op = "snapshot" /\ hist.overtaken)

=============================================================================
